---- MODULE Spec2Model ----
(***************************************************************************)
(* Model of marketplace-registry-cli/src/test-setup.ts: the scenario       *)
(* runner runTestSetup, its helpers validateEnvironmentVariables,          *)
(* createNewWallet, restoreWallet and sendFunds, and the standalone entry  *)
(* point.  Every awaited call into the wallet, ledger and contract         *)
(* collaborators is one step that either returns or throws.                *)
(*                                                                         *)
(* A program position is named after the source line of the call it is     *)
(* about to make: pc is the position inside runTestSetup, sub the position *)
(* inside the helper called from there ("" when no helper is active).      *)
(***************************************************************************)
EXTENDS Integers, Sequences, FiniteSets, TLC

VARIABLES
  mode,          \* "standalone" (import.meta.url test of line 304 true) or "library"
  processEnv,    \* process.env: variable name -> <<>> (unset) or <<string>>
  pc,            \* position in runTestSetup
  sub,           \* position in the active helper
  env,           \* the record returned by validateEnvironmentVariables
  wallets,       \* the wallet handles held in runTestSetup's local constants
  local,         \* locals of the active helper (seed, wallet, address, recipe)
  wallet1Result, \* result of createNewWallet, line 193
  wallet2Result, \* result of createNewWallet, line 198
  txIds,         \* fundingTxId1, fundingTxId2, paymentTxId1, paymentTxId2
  walletStates,  \* fundWalletState, wallet1State, wallet2State
  contract,      \* marketplaceRegistryContract
  result,        \* <<>> or <<the TestSetupResult returned>>
  promise,       \* the promise of runTestSetup: "pending", "fulfilled", "rejected"
  exitCode,      \* <<>> while the process lives, <<c>> after process.exit(c)
  error,         \* <<>> or <<the error last thrown>>
  log,           \* logger.warn, logger.error and console.error entries
  calls,         \* history of the collaborator calls made
  ledger,        \* transactions the network has accepted for submission
  confirmed,     \* ids of the submitted transactions the network has confirmed
  nextHandle,    \* number of the next wallet handle built
  nextTx         \* number of the next transaction id

vars == <<mode, processEnv, pc, sub, env, wallets, local, wallet1Result,
          wallet2Result, txIds, walletStates, contract, result, promise,
          exitCode, error, log, calls, ledger, confirmed, nextHandle, nextTx>>

\* what a throw or a jump decides
ctl == <<pc, sub, promise, exitCode, error, log, txIds>>
\* what the steps of the scenario compute
data == <<env, wallets, local, wallet1Result, wallet2Result, walletStates,
          contract, result, ledger, nextHandle, nextTx>>
\* what the program never writes
world == <<mode, processEnv, confirmed>>

----------------------------------------------------------------------------
(* Bounds of the inputs *)

\* largest amount; amounts range over -1..MaxAmount
MaxAmount == 1

Amounts == -1..MaxAmount

\* strings that FUNDING_AMOUNT / PAYMENT_AMOUNT may hold
AmountStrings == {ToString(n) : n \in Amounts} \cup {"", "abc"}
\* strings the other three variables may hold
SeedStrings == {"", "f00d"}
AddressStrings == {"", "mn-shield-dest"}
EmailStrings == {"", "test@example.com"}
\* values of toHex(randomBytes(32)), line 92; two calls never return the same value
NewSeeds == {"aa", "bb"}

Optional(S) == {<<>>} \cup {<<s>> : s \in S}

----------------------------------------------------------------------------
(* Values *)

Sentinel == "manual-payment-required"
Unassigned == "<unassigned>"
NoHandle == [id |-> 0, seed |-> ""]
NoState == [address |-> "", coinPublicKey |-> <<>>, handle |-> 0]
NoResult == [wallet |-> NoHandle, seed |-> "", address |-> ""]
NoLocal == [seed |-> "", wallet |-> NoHandle, address |-> "", amount |-> 0, to |-> ""]
NoContract == [contractAddress |-> "", deployer |-> 0]

\* transaction id returned by submitTransaction
TxId(n) == "tx-" \o ToString(n)
\* error thrown by the collaborator call op made at position p
ErrOf(op, p) == op \o " failed at " \o p
\* address and coin public key of the wallet derived from a seed
AddressOf(seed) == "addr-" \o seed
CoinPublicKey(seed) ==
  IF seed = "aa" THEN <<10, 255>> ELSE IF seed = "bb" THEN <<0, 27>> ELSE <<171, 1>>
\* wallet.state() of a handle
StateOf(h) == [address |-> AddressOf(h.seed), coinPublicKey |-> CoinPublicKey(h.seed),
               handle |-> h.id]

HexDigit(d) == <<"0","1","2","3","4","5","6","7","8","9","a","b","c","d","e","f">>[d + 1]
RECURSIVE ToHex(_)
\* Buffer.from(bytes).toString('hex')
ToHex(bytes) ==
  IF bytes = <<>> THEN ""
  ELSE HexDigit(Head(bytes) \div 16) \o HexDigit(Head(bytes) % 16) \o ToHex(Tail(bytes))

----------------------------------------------------------------------------
(* validateEnvironmentVariables, lines 54-68 *)

\* !v of JavaScript for an environment value
Falsy(v) == v = <<>> \/ v = <<"">>

IsIntegerString(s) == \E n \in Amounts : ToString(n) = s
\* BigInt(s): the integer a decimal string denotes, a SyntaxError otherwise
BigInt(s) ==
  IF s = "" THEN [ok |-> TRUE, value |-> 0]
  ELSE IF IsIntegerString(s)
       THEN [ok |-> TRUE, value |-> CHOOSE n \in Amounts : ToString(n) = s]
       ELSE [ok |-> FALSE, value |-> 0]

NoEnv == [FUND_WALLET_SEED |-> "", DESTINATION_ADDRESS |-> "", FUNDING_AMOUNT |-> 0,
          PAYMENT_AMOUNT |-> 0, REGISTRATION_EMAIL |-> ""]

Required(name) == name \o " is required"

\* validateEnvironmentVariables substituting a default for a missing e-mail address
validateEnvironmentVariablesDefault(pe) ==
  IF Falsy(pe.FUND_WALLET_SEED)
    THEN [ok |-> FALSE, err |-> Required("FUND_WALLET_SEED"), env |-> NoEnv]
  ELSE IF Falsy(pe.DESTINATION_ADDRESS)
    THEN [ok |-> FALSE, err |-> Required("DESTINATION_ADDRESS"), env |-> NoEnv]
  ELSE IF Falsy(pe.FUNDING_AMOUNT)
    THEN [ok |-> FALSE, err |-> Required("FUNDING_AMOUNT"), env |-> NoEnv]
  ELSE IF Falsy(pe.PAYMENT_AMOUNT)
    THEN [ok |-> FALSE, err |-> Required("PAYMENT_AMOUNT"), env |-> NoEnv]
  ELSE IF ~BigInt(pe.FUNDING_AMOUNT[1]).ok \/ ~BigInt(pe.PAYMENT_AMOUNT[1]).ok
    THEN [ok |-> FALSE, err |-> "SyntaxError: Cannot convert to a BigInt", env |-> NoEnv]
  ELSE [ok |-> TRUE, err |-> "",
        env |-> [FUND_WALLET_SEED |-> pe.FUND_WALLET_SEED[1],
                 DESTINATION_ADDRESS |-> pe.DESTINATION_ADDRESS[1],
                 FUNDING_AMOUNT |-> BigInt(pe.FUNDING_AMOUNT[1]).value,
                 PAYMENT_AMOUNT |-> BigInt(pe.PAYMENT_AMOUNT[1]).value,
                 REGISTRATION_EMAIL |-> IF Falsy(pe.REGISTRATION_EMAIL)
                                          THEN "test@example.com"
                                          ELSE pe.REGISTRATION_EMAIL[1]]]

validateEnvironmentVariables(pe) ==
  IF Falsy(pe.FUND_WALLET_SEED)
    THEN [ok |-> FALSE, err |-> Required("FUND_WALLET_SEED"), env |-> NoEnv]
  ELSE IF Falsy(pe.DESTINATION_ADDRESS)
    THEN [ok |-> FALSE, err |-> Required("DESTINATION_ADDRESS"), env |-> NoEnv]
  ELSE IF Falsy(pe.FUNDING_AMOUNT)
    THEN [ok |-> FALSE, err |-> Required("FUNDING_AMOUNT"), env |-> NoEnv]
  ELSE IF Falsy(pe.PAYMENT_AMOUNT)
    THEN [ok |-> FALSE, err |-> Required("PAYMENT_AMOUNT"), env |-> NoEnv]
  ELSE IF Falsy(pe.REGISTRATION_EMAIL)
    THEN [ok |-> FALSE, err |-> Required("REGISTRATION_EMAIL"), env |-> NoEnv]
  ELSE IF ~BigInt(pe.FUNDING_AMOUNT[1]).ok \/ ~BigInt(pe.PAYMENT_AMOUNT[1]).ok
    THEN [ok |-> FALSE, err |-> "SyntaxError: Cannot convert to a BigInt", env |-> NoEnv]
  ELSE [ok |-> TRUE, err |-> "",
        env |-> [FUND_WALLET_SEED |-> pe.FUND_WALLET_SEED[1],
                 DESTINATION_ADDRESS |-> pe.DESTINATION_ADDRESS[1],
                 FUNDING_AMOUNT |-> BigInt(pe.FUNDING_AMOUNT[1]).value,
                 PAYMENT_AMOUNT |-> BigInt(pe.PAYMENT_AMOUNT[1]).value,
                 REGISTRATION_EMAIL |-> pe.REGISTRATION_EMAIL[1]]]

----------------------------------------------------------------------------
(* Control flow of runTestSetup *)

CreateSites == {"L193", "L198"}
RestoreSites == {"L208", "L219", "L234", "L246", "L252"}
SendSites == {"L209", "L210", "L235", "L247"}

\* first position of the helper called at p
Entry(p) ==
  IF p \in CreateSites THEN "L94"
  ELSE IF p \in RestoreSites THEN "L115"
  ELSE IF p \in SendSites THEN "L135"
  ELSE ""

\* Succ with the run waiting, after line 257, at a position from which no step is taken
SuccStalled(p) ==
  CASE p = "L174" -> "L187"
    [] p = "L187" -> "L188"
    [] p = "L188" -> "L193"
    [] p = "L193" -> "L198"
    [] p = "L198" -> "L208"
    [] p = "L208" -> "L209"
    [] p = "L209" -> "L210"
    [] p = "L210" -> "L219"
    [] p = "L219" -> "L220"
    [] p = "L220" -> "L221"
    [] p = "L221" -> "L227"
    [] p = "L227" -> "L234"
    [] p = "L234" -> "L235"
    [] p = "L235" -> "L246"
    [] p = "L246" -> "L247"
    [] p = "L247" -> "L256"
    [] p = "L252" -> "L256"
    [] p = "L256" -> "L257"
    [] p = "L257" -> "L258"
    [] p = "L279" -> "done"

\* the call made after the call at p has returned
Succ(p) ==
  CASE p = "L174" -> "L187"
    [] p = "L187" -> "L188"
    [] p = "L188" -> "L193"
    [] p = "L193" -> "L198"
    [] p = "L198" -> "L208"
    [] p = "L208" -> "L209"
    [] p = "L209" -> "L210"
    [] p = "L210" -> "L219"
    [] p = "L219" -> "L220"
    [] p = "L220" -> "L221"
    [] p = "L221" -> "L227"
    [] p = "L227" -> "L234"
    [] p = "L234" -> "L235"
    [] p = "L235" -> "L246"
    [] p = "L246" -> "L247"
    [] p = "L247" -> "L256"
    [] p = "L252" -> "L256"
    [] p = "L256" -> "L257"
    [] p = "L257" -> "L279"
    [] p = "L279" -> "done"

\* Handler without the try of lines 206-215
HandlerNoFundingTry(p) ==
  IF p = "L174" THEN "none"
  ELSE IF p \in {"L234", "L235"} THEN "payment1"
  ELSE IF p \in {"L246", "L247"} THEN "payment2"
  ELSE "outer"

\* Handler with the try of lines 206-215 closed after the deployment
HandlerDeployInFundingTry(p) ==
  IF p = "L174" THEN "none"
  ELSE IF p \in {"L208", "L209", "L210", "L219", "L220", "L221"} THEN "funding"
  ELSE IF p \in {"L234", "L235"} THEN "payment1"
  ELSE IF p \in {"L246", "L247"} THEN "payment2"
  ELSE "outer"

\* Handler with the try of lines 233-239 opened before the registration
HandlerRegisterInPaymentTry(p) ==
  IF p = "L174" THEN "none"
  ELSE IF p \in {"L208", "L209", "L210"} THEN "funding"
  ELSE IF p \in {"L227", "L234", "L235"} THEN "payment1"
  ELSE IF p \in {"L246", "L247"} THEN "payment2"
  ELSE "outer"

\* the try block whose catch receives an error thrown at p
Handler(p) ==
  IF p = "L174" THEN "none"
  ELSE IF p \in {"L208", "L209", "L210"} THEN "funding"
  ELSE IF p \in {"L234", "L235"} THEN "payment1"
  ELSE IF p \in {"L246", "L247"} THEN "payment2"
  ELSE "outer"

\* CatchResume leaving step 8 out after a failed wallet1 payment
CatchResumeSkip(h) == IF h = "payment1" THEN "L256" ELSE "L252"

\* CatchResume without the restoreWallet call of line 252
CatchResumeNoRestore(h) == IF h = "payment1" THEN "L246" ELSE "L256"

\* where the run resumes after the catch block of a payment try
CatchResume(h) == IF h = "payment1" THEN "L246" ELSE "L252"

\* the variable the catch block of a payment try assigns the sentinel to
CatchTarget(h) == IF h = "payment1" THEN "paymentTxId1" ELSE "paymentTxId2"

\* the run is still executing
Running == promise = "pending" /\ exitCode = <<>> /\ pc # "done"

Goto(p) == pc' = p /\ sub' = Entry(p)

Entry_(level, msg, e) == [level |-> level, msg |-> msg, err |-> e]

\* an error e is thrown at pc, the log being lg at that moment
Throw(e, lg) ==
  /\ error' = <<e>>
  /\ \/ /\ Handler(pc) = "none"
        /\ promise' = "rejected"
        /\ sub' = ""
        /\ log' = lg
        /\ UNCHANGED <<pc, exitCode, txIds>>
     \/ /\ Handler(pc) = "funding"
        /\ log' = Append(lg, Entry_("error",
                     "Failed to send funds to wallets for testing, exiting...", <<e>>))
        /\ exitCode' = <<1>>
        /\ sub' = ""
        /\ UNCHANGED <<pc, promise, txIds>>
     \/ /\ Handler(pc) \in {"payment1", "payment2"}
        /\ log' = Append(lg, Entry_("warn",
                     IF Handler(pc) = "payment1"
                       THEN "Automatic payment from wallet1 failed, manual payment required"
                       ELSE "Automatic payment from wallet2 failed, manual payment required",
                     <<>>))
        /\ txIds' = [txIds EXCEPT ![CatchTarget(Handler(pc))] = Sentinel]
        /\ Goto(CatchResume(Handler(pc)))
        /\ UNCHANGED <<promise, exitCode>>
     \/ /\ Handler(pc) = "outer"
        /\ log' = Append(lg, Entry_("error", "Test setup failed:", <<e>>))
        /\ promise' = "rejected"
        /\ sub' = ""
        /\ UNCHANGED <<pc, exitCode, txIds>>

\* the collaborator call op is recorded: h is the wallet handle it is made on,
\* to its string argument (a seed, a receiver address or an e-mail address)
Call(op, h, amount, to, ok) ==
  calls' = Append(calls, [op |-> op, at |-> pc, h |-> h, amount |-> amount,
                         to |-> to, ok |-> ok])

----------------------------------------------------------------------------
\* the state when runTestSetup reaches line 174: the module has read process.env
\* (lines 44-51) and the logger has been created (lines 167-171)
Init ==
  /\ mode \in {"standalone", "library"}
  /\ processEnv \in [FUND_WALLET_SEED : Optional(SeedStrings),
                     DESTINATION_ADDRESS : Optional(AddressStrings),
                     FUNDING_AMOUNT : Optional(AmountStrings),
                     PAYMENT_AMOUNT : Optional(AmountStrings),
                     REGISTRATION_EMAIL : Optional(EmailStrings)]
  /\ pc = "L174"
  /\ sub = ""
  /\ env = NoEnv
  /\ wallets = [fundWallet |-> NoHandle, restoredFundWallet |-> NoHandle,
                restoredWallet1 |-> NoHandle, restoredWallet1ForPayment |-> NoHandle,
                restoredWallet2ForPayment |-> NoHandle]
  /\ local = NoLocal
  /\ wallet1Result = NoResult
  /\ wallet2Result = NoResult
  /\ txIds = [fundingTxId1 |-> Unassigned, fundingTxId2 |-> Unassigned,
              paymentTxId1 |-> Unassigned, paymentTxId2 |-> Unassigned]
  /\ walletStates = [fundWalletState |-> NoState, wallet1State |-> NoState,
                     wallet2State |-> NoState]
  /\ contract = NoContract
  /\ result = <<>>
  /\ promise = "pending"
  /\ exitCode = <<>>
  /\ error = <<>>
  /\ log = <<>>
  /\ calls = <<>>
  /\ ledger = <<>>
  /\ confirmed = {}
  /\ nextHandle = 1
  /\ nextTx = 1

\* line 174, and the throw of lines 55-59 and 64-65 outside the try of line 184
Validate ==
  /\ Running /\ pc = "L174"
  /\ LET v == validateEnvironmentVariables(processEnv) IN
       IF v.ok
         THEN /\ env' = v.env
              /\ Goto("L187")
              /\ UNCHANGED <<promise, exitCode, error, log, txIds>>
         ELSE /\ Throw(v.err, log)
              /\ UNCHANGED env
  /\ UNCHANGED <<wallets, local, wallet1Result, wallet2Result, walletStates,
                 contract, result, ledger, nextHandle, nextTx, calls, world>>

\* a collaborator call at pc returned: nothing is thrown, the log is unchanged
Quiet == UNCHANGED <<promise, exitCode, error, log, txIds>>

\* line 187: buildWalletAndWaitForFunds(testConfig, env.FUND_WALLET_SEED, 'fund-wallet')
BuildFundWallet ==
  /\ Running /\ pc = "L187"
  /\ \E ok \in BOOLEAN :
       /\ Call("buildWalletAndWaitForFunds", nextHandle, 0, env.FUND_WALLET_SEED, ok)
       /\ IF ok
            THEN /\ wallets' = [wallets EXCEPT !.fundWallet =
                                  [id |-> nextHandle, seed |-> env.FUND_WALLET_SEED]]
                 /\ nextHandle' = nextHandle + 1
                 /\ Goto(Succ(pc)) /\ Quiet
            ELSE /\ Throw(ErrOf("buildWalletAndWaitForFunds", pc), log)
                 /\ UNCHANGED <<wallets, nextHandle>>
  /\ UNCHANGED <<env, local, wallet1Result, wallet2Result, walletStates, contract,
                 result, ledger, nextTx, world>>

\* line 188: Rx.firstValueFrom(fundWallet.state())
ReadFundWalletState ==
  /\ Running /\ pc = "L188"
  /\ \E ok \in BOOLEAN :
       /\ Call("state", wallets.fundWallet.id, 0, "", ok)
       /\ IF ok
            THEN /\ walletStates' = [walletStates EXCEPT
                                       !.fundWalletState = StateOf(wallets.fundWallet)]
                 /\ Goto(Succ(pc)) /\ Quiet
            ELSE /\ Throw(ErrOf("state", pc), log)
                 /\ UNCHANGED walletStates
  /\ UNCHANGED <<env, wallets, local, wallet1Result, wallet2Result, contract,
                 result, ledger, nextHandle, nextTx, world>>

----------------------------------------------------------------------------
(* createNewWallet, lines 91-102, called at lines 193 and 198 *)

\* lines 92-94: a random seed, then buildWalletAndWaitForSync(config, seed, '')
CreateBuild ==
  /\ Running /\ pc \in CreateSites /\ sub = "L94"
  /\ \E seed \in NewSeeds \ {wallet1Result.seed}, ok \in BOOLEAN :
       /\ Call("buildWalletAndWaitForSync", nextHandle, 0, seed, ok)
       /\ IF ok
            THEN /\ local' = [NoLocal EXCEPT !.seed = seed,
                                !.wallet = [id |-> nextHandle, seed |-> seed]]
                 /\ nextHandle' = nextHandle + 1
                 /\ sub' = "L95"
                 /\ UNCHANGED pc /\ Quiet
            ELSE /\ Throw(ErrOf("buildWalletAndWaitForSync", pc), log)
                 /\ UNCHANGED <<local, nextHandle>>
  /\ UNCHANGED <<env, wallets, wallet1Result, wallet2Result, walletStates, contract,
                 result, ledger, nextTx, world>>

\* line 95: Rx.firstValueFrom(wallet.state())
CreateState ==
  /\ Running /\ pc \in CreateSites /\ sub = "L95"
  /\ \E ok \in BOOLEAN :
       /\ Call("state", local.wallet.id, 0, "", ok)
       /\ IF ok
            THEN /\ local' = [local EXCEPT !.address = StateOf(local.wallet).address]
                 /\ sub' = "L98"
                 /\ UNCHANGED pc /\ Quiet
            ELSE /\ Throw(ErrOf("state", pc), log)
                 /\ UNCHANGED local
  /\ UNCHANGED <<env, wallets, wallet1Result, wallet2Result, walletStates, contract,
                 result, ledger, nextHandle, nextTx, world>>

\* lines 98-101: wallet.serializeState(), then the return to line 193 or 198
CreateSerialize ==
  /\ Running /\ pc \in CreateSites /\ sub = "L98"
  /\ \E ok \in BOOLEAN :
       /\ Call("serializeState", local.wallet.id, 0, "", ok)
       /\ IF ok
            THEN /\ LET r == [wallet |-> local.wallet, seed |-> local.seed,
                              address |-> local.address] IN
                      IF pc = "L193"
                        THEN wallet1Result' = r /\ UNCHANGED wallet2Result
                        ELSE wallet2Result' = r /\ UNCHANGED wallet1Result
                 /\ local' = NoLocal
                 /\ Goto(Succ(pc)) /\ Quiet
            ELSE /\ Throw(ErrOf("serializeState", pc), log)
                 /\ UNCHANGED <<local, wallet1Result, wallet2Result>>
  /\ UNCHANGED <<env, wallets, walletStates, contract, result, ledger, nextHandle,
                 nextTx, world>>

----------------------------------------------------------------------------
(* restoreWallet, lines 107-124, called at lines 208, 219, 234, 246 and 252 *)

\* RestoreSeed with line 252 passing the seed of line 234
RestoreSeedCopied(p) ==
  IF p = "L208" THEN env.FUND_WALLET_SEED
  ELSE IF p \in {"L219", "L234", "L252"} THEN wallet1Result.seed
  ELSE wallet2Result.seed

\* the seed passed at the call site p
RestoreSeed(p) ==
  IF p = "L208" THEN env.FUND_WALLET_SEED
  ELSE IF p \in {"L219", "L234"} THEN wallet1Result.seed
  ELSE wallet2Result.seed

\* the constant or variable of runTestSetup that receives the handle
RestoreTarget(p) ==
  CASE p = "L208" -> "restoredFundWallet"
    [] p = "L219" -> "restoredWallet1"
    [] p = "L234" -> "restoredWallet1ForPayment"
    [] p \in {"L246", "L252"} -> "restoredWallet2ForPayment"

\* line 115: buildWalletAndWaitForSync(config, seed, '')
RestoreBuild ==
  /\ Running /\ pc \in RestoreSites /\ sub = "L115"
  /\ \E ok \in BOOLEAN :
       /\ Call("buildWalletAndWaitForSync", nextHandle, 0, RestoreSeed(pc), ok)
       /\ IF ok
            THEN /\ local' = [NoLocal EXCEPT !.seed = RestoreSeed(pc),
                                !.wallet = [id |-> nextHandle, seed |-> RestoreSeed(pc)]]
                 /\ nextHandle' = nextHandle + 1
                 /\ sub' = "L118"
                 /\ UNCHANGED pc /\ Quiet
            ELSE /\ Throw(ErrOf("buildWalletAndWaitForSync", pc), log)
                 /\ UNCHANGED <<local, nextHandle>>
  /\ UNCHANGED <<env, wallets, wallet1Result, wallet2Result, walletStates, contract,
                 result, ledger, nextTx, world>>

\* line 118: waitForSync(wallet)
RestoreSync ==
  /\ Running /\ pc \in RestoreSites /\ sub = "L118"
  /\ \E ok \in BOOLEAN :
       /\ Call("waitForSync", local.wallet.id, 0, "", ok)
       /\ IF ok
            THEN sub' = "L120" /\ UNCHANGED pc /\ Quiet
            ELSE Throw(ErrOf("waitForSync", pc), log)
  /\ UNCHANGED <<data, world>>

\* lines 120-123: Rx.firstValueFrom(wallet.state()), then the return to the call site
RestoreState ==
  /\ Running /\ pc \in RestoreSites /\ sub = "L120"
  /\ \E ok \in BOOLEAN :
       /\ Call("state", local.wallet.id, 0, "", ok)
       /\ IF ok
            THEN /\ wallets' = [wallets EXCEPT ![RestoreTarget(pc)] = local.wallet]
                 /\ local' = NoLocal
                 /\ Goto(Succ(pc)) /\ Quiet
            ELSE /\ Throw(ErrOf("state", pc), log)
                 /\ UNCHANGED <<wallets, local>>
  /\ UNCHANGED <<env, wallet1Result, wallet2Result, walletStates, contract, result,
                 ledger, nextHandle, nextTx, world>>

----------------------------------------------------------------------------
(* sendFunds, lines 129-161, called at lines 209, 210, 235 and 247 *)

\* fromWallet, toAddress and amount passed at the call site p
SendFrom(p) ==
  CASE p \in {"L209", "L210"} -> wallets.restoredFundWallet
    [] p = "L235" -> wallets.restoredWallet1ForPayment
    [] p = "L247" -> wallets.restoredWallet2ForPayment

\* SendTo with line 210 passing the address of line 209
SendToCopied(p) ==
  CASE p \in {"L209", "L210"} -> wallet1Result.address
    [] p \in {"L235", "L247"} -> env.DESTINATION_ADDRESS

SendTo(p) ==
  CASE p = "L209" -> wallet1Result.address
    [] p = "L210" -> wallet2Result.address
    [] p \in {"L235", "L247"} -> env.DESTINATION_ADDRESS

SendAmount(p) ==
  IF p \in {"L209", "L210"} THEN env.FUNDING_AMOUNT ELSE env.PAYMENT_AMOUNT

\* SendTarget with line 247 assigning the variable of line 235
SendTargetCopied(p) ==
  CASE p = "L209" -> "fundingTxId1"
    [] p = "L210" -> "fundingTxId2"
    [] p = "L235" -> "paymentTxId1"
    [] p = "L247" -> "paymentTxId1"

\* the variable of runTestSetup assigned from the call at p
SendTarget(p) ==
  CASE p = "L209" -> "fundingTxId1"
    [] p = "L210" -> "fundingTxId2"
    [] p = "L235" -> "paymentTxId1"
    [] p = "L247" -> "paymentTxId2"

\* SendFundsRethrow throwing a new error in place of the one caught
SendFundsRethrowWrapped(e) == "Error: failed to send funds"

\* the error sendFunds throws from its catch block for an underlying error e, line 159
SendFundsRethrow(e) == e

\* lines 157-160: the catch block of sendFunds logs the error and throws
SendFundsCatch(e) ==
  Throw(SendFundsRethrow(e),
        Append(log, Entry_("error", "Failed to send funds: " \o e, <<e>>)))

\* line 135: Rx.firstValueFrom(fromWallet.state()), before the try of line 138
SendState ==
  /\ Running /\ pc \in SendSites /\ sub = "L135"
  /\ \E ok \in BOOLEAN :
       /\ Call("state", SendFrom(pc).id, 0, "", ok)
       /\ IF ok
            THEN sub' = "L140" /\ UNCHANGED pc /\ Quiet
            ELSE Throw(ErrOf("state", pc), log)
  /\ UNCHANGED <<data, world>>

\* lines 140-146: fromWallet.transferTransaction([{amount, type, receiverAddress}])
SendTransfer ==
  /\ Running /\ pc \in SendSites /\ sub = "L140"
  /\ \E ok \in BOOLEAN :
       /\ Call("transferTransaction", SendFrom(pc).id, SendAmount(pc), SendTo(pc), ok)
       /\ IF ok
            THEN /\ local' = [NoLocal EXCEPT !.amount = SendAmount(pc), !.to = SendTo(pc)]
                 /\ sub' = "L149"
                 /\ UNCHANGED pc /\ Quiet
            ELSE /\ SendFundsCatch(ErrOf("transferTransaction", pc))
                 /\ UNCHANGED local
  /\ UNCHANGED <<env, wallets, wallet1Result, wallet2Result, walletStates, contract,
                 result, ledger, nextHandle, nextTx, world>>

\* line 149: fromWallet.proveTransaction(transferRecipe)
SendProve ==
  /\ Running /\ pc \in SendSites /\ sub = "L149"
  /\ \E ok \in BOOLEAN :
       /\ Call("proveTransaction", SendFrom(pc).id, local.amount, local.to, ok)
       /\ IF ok
            THEN sub' = "L152" /\ UNCHANGED pc /\ Quiet
            ELSE SendFundsCatch(ErrOf("proveTransaction", pc))
  /\ UNCHANGED <<data, world>>

\* lines 152-155: fromWallet.submitTransaction(provenTransaction), then the return
\* of the transaction id and its assignment at the call site
SendSubmit ==
  /\ Running /\ pc \in SendSites /\ sub = "L152"
  /\ \E ok \in BOOLEAN :
       /\ Call("submitTransaction", SendFrom(pc).id, local.amount, local.to, ok)
       /\ IF ok
            THEN /\ ledger' = Append(ledger, [id |-> TxId(nextTx), from |-> SendFrom(pc).seed,
                                              to |-> local.to, amount |-> local.amount,
                                              at |-> pc])
                 /\ nextTx' = nextTx + 1
                 /\ txIds' = [txIds EXCEPT ![SendTarget(pc)] = TxId(nextTx)]
                 /\ local' = NoLocal
                 /\ Goto(Succ(pc))
                 /\ UNCHANGED <<promise, exitCode, error, log>>
            ELSE /\ SendFundsCatch(ErrOf("submitTransaction", pc))
                 /\ UNCHANGED <<ledger, nextTx, local>>
  /\ UNCHANGED <<env, wallets, wallet1Result, wallet2Result, walletStates, contract,
                 result, nextHandle, world>>

\* the network confirms a submitted transaction, the transactions being confirmed
\* in the order of their submission; the program takes no part in it
NetworkConfirm ==
  /\ \E i \in 1..Len(ledger) :
       /\ ledger[i].id \notin confirmed
       /\ \A j \in 1..(i - 1) : ledger[j].id \in confirmed
       /\ confirmed' = confirmed \cup {ledger[i].id}
  /\ UNCHANGED <<ctl, data, calls, mode, processEnv>>

----------------------------------------------------------------------------
(* steps 5 and 6, lines 217-228 *)

\* line 220: configureProviders(restoredWallet1, testConfig)
ConfigureProviders ==
  /\ Running /\ pc = "L220"
  /\ \E ok \in BOOLEAN :
       /\ Call("configureProviders", wallets.restoredWallet1.id, 0, "", ok)
       /\ IF ok
            THEN Goto(Succ(pc)) /\ Quiet
            ELSE Throw(ErrOf("configureProviders", pc), log)
  /\ UNCHANGED <<data, world>>

\* lines 221-222: deploy(providers, {})
Deploy ==
  /\ Running /\ pc = "L221"
  /\ \E ok \in BOOLEAN :
       /\ Call("deploy", wallets.restoredWallet1.id, 0, "", ok)
       /\ IF ok
            THEN /\ contract' = [contractAddress |-> "contract-" \o wallets.restoredWallet1.seed,
                                 deployer |-> wallets.restoredWallet1.id]
                 /\ Goto(Succ(pc)) /\ Quiet
            ELSE /\ Throw(ErrOf("deploy", pc), log)
                 /\ UNCHANGED contract
  /\ UNCHANGED <<env, wallets, local, wallet1Result, wallet2Result, walletStates,
                 result, ledger, nextHandle, nextTx, world>>

\* line 227: register(marketplaceRegistryContract, env.REGISTRATION_EMAIL)
Register ==
  /\ Running /\ pc = "L227"
  /\ \E ok \in BOOLEAN :
       /\ Call("register", contract.deployer, 0, env.REGISTRATION_EMAIL, ok)
       /\ IF ok
            THEN Goto(Succ(pc)) /\ Quiet
            ELSE Throw(ErrOf("register", pc), log)
  /\ UNCHANGED <<data, world>>

----------------------------------------------------------------------------
(* lines 255-295: the public keys and the result *)

\* line 256: Rx.firstValueFrom(restoredWallet1.state())
ReadWallet1State ==
  /\ Running /\ pc = "L256"
  /\ \E ok \in BOOLEAN :
       /\ Call("state", wallets.restoredWallet1.id, 0, "", ok)
       /\ IF ok
            THEN /\ walletStates' = [walletStates EXCEPT
                                       !.wallet1State = StateOf(wallets.restoredWallet1)]
                 /\ Goto(Succ(pc)) /\ Quiet
            ELSE /\ Throw(ErrOf("state", pc), log)
                 /\ UNCHANGED walletStates
  /\ UNCHANGED <<env, wallets, local, wallet1Result, wallet2Result, contract,
                 result, ledger, nextHandle, nextTx, world>>

\* line 257: Rx.firstValueFrom(restoredWallet2ForPayment.state())
ReadWallet2State ==
  /\ Running /\ pc = "L257"
  /\ \E ok \in BOOLEAN :
       /\ Call("state", wallets.restoredWallet2ForPayment.id, 0, "", ok)
       /\ IF ok
            THEN /\ walletStates' = [walletStates EXCEPT
                                       !.wallet2State = StateOf(wallets.restoredWallet2ForPayment)]
                 /\ Goto(Succ(pc)) /\ Quiet
            ELSE /\ Throw(ErrOf("state", pc), log)
                 /\ UNCHANGED walletStates
  /\ UNCHANGED <<env, wallets, local, wallet1Result, wallet2Result, contract,
                 result, ledger, nextHandle, nextTx, world>>

\* lines 258-295: the TestSetupResult
TestSetupResult ==
  [fundWalletSeed |-> env.FUND_WALLET_SEED,
   wallet1Seed |-> wallet1Result.seed,
   wallet2Seed |-> wallet2Result.seed,
   marketplaceRegistryContract |-> contract,
   contractAddress |-> contract.contractAddress,
   wallet1PublicKey |-> ToHex(walletStates.wallet1State.coinPublicKey),
   wallet2PublicKey |-> ToHex(walletStates.wallet2State.coinPublicKey),
   destinationAddress |-> env.DESTINATION_ADDRESS,
   fundWalletAddress |-> walletStates.fundWalletState.address,
   wallet1Address |-> wallet1Result.address,
   wallet2Address |-> wallet2Result.address,
   fundingTxId1 |-> txIds.fundingTxId1,
   fundingTxId2 |-> txIds.fundingTxId2,
   paymentTxId1 |-> txIds.paymentTxId1,
   paymentTxId2 |-> txIds.paymentTxId2]

\* line 279: return
Return ==
  /\ Running /\ pc = "L279"
  /\ result' = <<TestSetupResult>>
  /\ promise' = "fulfilled"
  /\ Goto(Succ(pc))
  /\ UNCHANGED <<exitCode, error, log, txIds, env, wallets, local, wallet1Result,
                 wallet2Result, walletStates, contract, ledger, nextHandle, nextTx,
                 calls, world>>

----------------------------------------------------------------------------
(* the entry point, lines 304-327 *)

\* the exit code of line 321
ThenExitCode == 0
\* CatchExitCode with the exit code of line 321
CatchExitCodeZero == ThenExitCode
\* the exit code of line 325
CatchExitCode == 1

\* lines 306-322: .then((result) => { console.log(...); process.exit(0) })
EntryThen ==
  /\ mode = "standalone" /\ promise = "fulfilled" /\ exitCode = <<>>
  /\ exitCode' = <<ThenExitCode>>
  /\ UNCHANGED <<pc, sub, promise, error, log, txIds, data, calls, world>>

\* lines 323-326: .catch((error) => { console.error(...); process.exit(1) })
EntryCatch ==
  /\ mode = "standalone" /\ promise = "rejected" /\ exitCode = <<>>
  /\ log' = Append(log, Entry_("console.error", "Test setup failed:", error))
  /\ exitCode' = <<CatchExitCode>>
  /\ UNCHANGED <<pc, sub, promise, error, txIds, data, calls, world>>

\* the steps of the program
Program ==
  \/ Validate
  \/ BuildFundWallet
  \/ ReadFundWalletState
  \/ CreateBuild
  \/ CreateState
  \/ CreateSerialize
  \/ RestoreBuild
  \/ RestoreSync
  \/ RestoreState
  \/ SendState
  \/ SendTransfer
  \/ SendProve
  \/ SendSubmit
  \/ ConfigureProviders
  \/ Deploy
  \/ Register
  \/ ReadWallet1State
  \/ ReadWallet2State
  \/ Return
  \/ EntryThen
  \/ EntryCatch

Next == Program \/ NetworkConfirm

Spec == Init /\ [][Next]_vars

\* every collaborator call eventually returns or throws, and the continuation of an
\* awaited call is eventually run
FairSpec == Spec /\ WF_vars(Program)

----------------------------------------------------------------------------
(* Properties *)

FundingSites == {"L208", "L209", "L210"}
Payment1Sites == {"L234", "L235"}
Payment2Sites == {"L246", "L247", "L252"}

\* indices of the collaborator calls made at the positions S
CallsAt(S) == {i \in 1..Len(calls) : calls[i].at \in S}
\* a call made at one of the positions S threw
FailedAt(S) == \E i \in CallsAt(S) : ~calls[i].ok
\* the call op was made at p and returned
OkAt(op, p) == \E i \in CallsAt({p}) : calls[i].op = op /\ calls[i].ok
\* the last collaborator call threw
LastFailed == calls # <<>> /\ ~calls[Len(calls)].ok
\* no step of the program can be taken any more
Ended == ~ENABLED Program

\* C1: once register has succeeded, no failure inside step 7 (lines 230-239) or
\* step 8 (lines 241-253) aborts the run: while the run is at a position of those
\* steps its promise is never rejected and the process never exits.
C1_PaymentFailureNeverAborts ==
  (OkAt("register", "L227") /\ pc \in Payment1Sites \cup Payment2Sites)
    => (promise # "rejected" /\ exitCode = <<>>)

\* the payment attempt of the wallet that pays at p failed / succeeded
AttemptFailed(p) ==
  FailedAt(IF p = "L235" THEN {"L234", "L235"} ELSE {"L246", "L247"})
AttemptSucceeded(p) == OkAt("submitTransaction", p)
\* id is the transaction id the network returned for the submission made at p
ReturnedAt(id, p) == \E i \in 1..Len(ledger) : ledger[i].at = p /\ ledger[i].id = id

\* C2: in every returned result paymentTxId1 and paymentTxId2 each hold either the
\* id returned by that wallet's submitTransaction or the sentinel
\* "manual-payment-required": the sentinel exactly when that wallet's payment attempt
\* failed, the real id exactly when it succeeded.
C2_PaymentIdOrSentinel ==
  result # <<>> =>
    /\ AttemptFailed("L235") # AttemptSucceeded("L235")
    /\ AttemptFailed("L247") # AttemptSucceeded("L247")
    /\ (result[1].paymentTxId1 = Sentinel) <=> AttemptFailed("L235")
    /\ (result[1].paymentTxId2 = Sentinel) <=> AttemptFailed("L247")
    /\ ReturnedAt(result[1].paymentTxId1, "L235") <=> AttemptSucceeded("L235")
    /\ ReturnedAt(result[1].paymentTxId2, "L247") <=> AttemptSucceeded("L247")
    /\ ~ReturnedAt(Sentinel, "L235") /\ ~ReturnedAt(Sentinel, "L247")

\* a result with the sentinel for wallet1 and a real id for wallet2
C2_Witness ==
  /\ result # <<>>
  /\ result[1].paymentTxId1 = Sentinel
  /\ ReturnedAt(result[1].paymentTxId2, "L247")

\* C3: a failure of the fund-wallet restore or of either funding transfer (step 4)
\* is logged and ends the process with exit code 1 at once: the failed call is the
\* last call of the run, no step of the program is enabled afterwards, the transfer
\* to wallet2 is not attempted after the transfer to wallet1 failed, and no call of
\* the deployment, the registration or the payments is ever made.
C3_FundingFailureFatal ==
  FailedAt(FundingSites) =>
    /\ exitCode = <<1>>
    /\ promise = "pending" /\ result = <<>>
    /\ LastFailed /\ calls[Len(calls)].at \in FundingSites
    /\ Cardinality({i \in CallsAt(FundingSites) : ~calls[i].ok}) = 1
    /\ log # <<>> /\ log[Len(log)].level = "error" /\ log[Len(log)].err = error
    /\ FailedAt({"L208", "L209"}) => CallsAt({"L210"}) = {}
    /\ CallsAt({"L219", "L220", "L221", "L227"} \cup Payment1Sites \cup Payment2Sites) = {}
    /\ Ended

\* the transfer to wallet1 failed
C3_Witness ==
  /\ FailedAt({"L209"})
  /\ exitCode = <<1>>

\* C4 as stated: called as a library function, no run ends by terminating the
\* process.
C4_LibraryNeverExits ==
  mode = "library" => exitCode = <<>>

\* the error that made the run fail: the error of the failed collaborator call, or
\* the error of validateEnvironmentVariables when no call was made
TriggeringError ==
  IF calls = <<>> THEN validateEnvironmentVariables(processEnv).err
  ELSE ErrOf(calls[Len(calls)].op, calls[Len(calls)].at)

\* C4 (amended): called as a library function, a run ends in one of three ways: it
\* returns the result, its promise rejects with the error that triggered the failure,
\* or, exactly when step 4 (funding) failed, the process is terminated with exit
\* code 1 and the promise is never settled.
C4_LibraryEndings ==
  mode = "library" =>
    /\ exitCode # <<>> <=> FailedAt(FundingSites)
    /\ exitCode # <<>> => (exitCode = <<1>> /\ promise = "pending" /\ result = <<>>)
    /\ promise = "rejected" =>
         (result = <<>> /\ error = <<TriggeringError>> /\ (calls = <<>> \/ LastFailed))
    /\ promise = "fulfilled" <=> result # <<>>
    /\ Ended => (promise \in {"fulfilled", "rejected"} \/ exitCode = <<1>>)
    /\ (promise # "pending" \/ exitCode # <<>>) => Ended

\* a library run whose process was terminated
C4_Witness ==
  /\ mode = "library"
  /\ exitCode = <<1>>
  /\ FailedAt({"L210"})

\* the smallest of the indices C, 0 when there is none
First(C) == IF C = {} THEN 0 ELSE CHOOSE i \in C : \A j \in C : i <= j

\* C5: a call of step 7 or 8 is made only after register has returned without
\* error, which happens only after deploy has returned without error; when register
\* fails, no restoreWallet or sendFunds call of steps 7 and 8 is ever made.
C5_PaymentAfterRegistration ==
  LET P1 == CallsAt(Payment1Sites)
      P2 == CallsAt(Payment2Sites)
      D == CallsAt({"L221"})
      R == CallsAt({"L227"})
  IN
  /\ P1 \cup P2 # {} =>
       /\ \E d \in D : calls[d].op = "deploy" /\ calls[d].ok
       /\ \E r \in R : calls[r].op = "register" /\ calls[r].ok
       /\ First(D) < First(R)
       /\ First(R) < First(P1 \cup P2)
       /\ Cardinality(D) = 1 /\ Cardinality(R) = 1
  /\ R # {} => \E d \in D : calls[d].op = "deploy" /\ calls[d].ok
  /\ (\E r \in R : ~calls[r].ok) =>
       (P1 \cup P2 = {} /\ promise = "rejected" /\ LastFailed)
  /\ P2 # {} => (P1 # {} /\ First(P1) < First(P2))

\* the wallet1 payment attempt has started
C5_Witness ==
  /\ CallsAt(Payment1Sites) # {}
  /\ OkAt("register", "L227")
\* C6: whenever the run is about to make a call that spends a test wallet's funds
\* (configureProviders/deploy, register and the wallet1 payment for wallet1; the
\* wallet2 payment for wallet2), the funding transfer to that wallet has been
\* confirmed by the network.
C6_FundingConfirmedBeforeUse ==
  /\ (Running /\ pc \in {"L220", "L221", "L227", "L235"}) => txIds.fundingTxId1 \in confirmed
  /\ (Running /\ pc = "L247") => txIds.fundingTxId2 \in confirmed

RequiredVariables == {"FUND_WALLET_SEED", "DESTINATION_ADDRESS", "FUNDING_AMOUNT",
                      "PAYMENT_AMOUNT", "REGISTRATION_EMAIL"}
Missing == {v \in RequiredVariables : Falsy(processEnv[v])}

Order == <<"Init", "FundWalletReady", "Wallet1Ready", "Wallet2Ready", "FundsDistributed",
           "ContractDeployed", "Wallet1Registered", "Payment1Attempted",
           "Payment2Attempted", "Completed">>

\* the state the runner has reached when it is at position p: a state is entered
\* when the step that leads to it has finished
StateAt(p) ==
  CASE p \in {"L174", "L187", "L188"} -> 1
    [] p = "L193" -> 2
    [] p = "L198" -> 3
    [] p \in FundingSites -> 4
    [] p \in {"L219", "L220", "L221"} -> 5
    [] p = "L227" -> 6
    [] p \in Payment1Sites -> 7
    [] p \in {"L246", "L247"} -> 8
    [] p \in {"L252", "L256", "L257", "L279"} -> 9
    [] p = "done" -> 10

\* C8: the runner moves through Init, FundWalletReady, ..., Completed in that order
\* only: every step either stays in the current state or enters its direct
\* successor, so no state is entered twice, skipped or returned to.
C8_StatesInOrder ==
  [][StateAt(pc') = StateAt(pc) \/ StateAt(pc') = StateAt(pc) + 1]_vars

\* the last state has been entered
C8_Witness ==
  Order[StateAt(pc)] = "Completed"

\* C9: run as the standalone entry point, the process exits with code 0 exactly
\* when runTestSetup returned a result; every other ending exits with code 1, the
\* error being the last thing logged before the exit.
C9_ExitCode ==
  mode = "standalone" =>
    /\ exitCode \in {<<>>, <<0>>, <<1>>}
    /\ exitCode = <<0>> => (result # <<>> /\ promise = "fulfilled" /\ pc = "done")
    /\ result # <<>> => exitCode \in {<<>>, <<0>>}
    /\ exitCode = <<1>> =>
         /\ result = <<>> /\ error # <<>>
         /\ log # <<>>
         /\ log[Len(log)].level \in {"error", "console.error"}
         /\ log[Len(log)].err = error
         /\ promise = "rejected" \/ FailedAt(FundingSites)
    /\ Ended <=> exitCode # <<>>

\* a standalone run that failed at the registration and exited
C9_Witness ==
  /\ mode = "standalone"
  /\ FailedAt({"L227"})
  /\ exitCode = <<1>>

TransferOps == <<"transferTransaction", "proveTransaction", "submitTransaction">>

\* C10: within one sendFunds call build, prove and submit run in that order, each at
\* most once; prove only after build returned, submit only after prove returned; a
\* failure of one of them is the last call of that sendFunds and the error thrown to
\* the caller is that call's error; the caller's variable holds a transaction id only
\* when all three returned.
C10_SendFundsSteps ==
  \A p \in SendSites :
    LET C == CallsAt({p})
        \* indices of the calls of the k-th step of the sendFunds called at p
        StepAt == [k \in 1..3 |-> {i \in C : calls[i].op = TransferOps[k]}]
        AllOk == \A k \in 1..3 : \E i \in StepAt[k] : calls[i].ok
        id == txIds[SendTarget(p)]
    IN
    /\ \A k \in 1..3 : Cardinality(StepAt[k]) <= 1
    /\ \A k \in 2..3 : \A i \in StepAt[k] :
         \E j \in StepAt[k - 1] : j < i /\ calls[j].ok
    /\ \A k \in 1..3 : \A i \in StepAt[k] :
         ~calls[i].ok =>
           /\ \A j \in C : j <= i
           /\ i = Len(calls) => error = <<ErrOf(TransferOps[k], p)>>
    /\ id \notin {Unassigned, Sentinel} => (AllOk /\ ReturnedAt(id, p))
    /\ AllOk => ReturnedAt(id, p)

\* the proof of the wallet1 payment failed
C10_Witness ==
  /\ LastFailed
  /\ calls[Len(calls)].op = "proveTransaction"
  /\ calls[Len(calls)].at = "L235"
\* C11: every amount handed to a transfer is a positive integer: whatever values of
\* FUNDING_AMOUNT and PAYMENT_AMOUNT pass validateEnvironmentVariables, every
\* transferTransaction request built by sendFunds carries an amount greater than 0.
C11_AmountsPositive ==
  \A i \in 1..Len(calls) :
    calls[i].op = "transferTransaction" => calls[i].amount > 0
FundWalletSites == {"L187", "L188"}
DeploySites == {"L219", "L220", "L221"}
RegisterSites == {"L227"}

\* C12: a failure of the fund-wallet setup, of the deployment or of the registration
\* is fatal: the failed call is the last call of the run (no retry, no later step),
\* no wallet is created after a fund-wallet failure, register is not called after a
\* deployment failure, no payment is attempted, the error is logged, the run
\* rejects, and a standalone process then exits with code 1.
C12_FixtureFailureFatal ==
  FailedAt(FundWalletSites \cup DeploySites \cup RegisterSites) =>
    /\ promise = "rejected" /\ result = <<>>
    /\ LastFailed
    /\ Cardinality({i \in 1..Len(calls) : ~calls[i].ok}) = 1
    /\ error = <<ErrOf(calls[Len(calls)].op, calls[Len(calls)].at)>>
    /\ \E i \in 1..Len(log) : log[i].level = "error" /\ log[i].err = error
    /\ FailedAt(FundWalletSites) => CallsAt(CreateSites \cup FundingSites \cup DeploySites) = {}
    /\ FailedAt(FundWalletSites \cup DeploySites) => CallsAt(RegisterSites) = {}
    /\ CallsAt(Payment1Sites \cup Payment2Sites) = {}
    /\ mode = "library" => (exitCode = <<>> /\ Ended)
    /\ mode = "standalone" =>
         /\ exitCode \in {<<>>, <<1>>}
         /\ exitCode = <<>> => ENABLED EntryCatch
         /\ Ended => exitCode = <<1>>

\* the deployment failed
C12_Witness ==
  /\ FailedAt({"L221"})
  /\ promise = "rejected"

\* the seed generated by the createNewWallet called at p: the argument of its
\* buildWalletAndWaitForSync call
CreatedSeed(p) ==
  LET C == {i \in CallsAt({p}) : calls[i].op = "buildWalletAndWaitForSync"} IN
    IF C = {} THEN "" ELSE calls[CHOOSE i \in C : TRUE].to
\* the seeds passed to the restoreWallet calls made at the positions S
RestoredSeeds(S) ==
  {calls[i].to : i \in {j \in CallsAt(S) : calls[j].op = "buildWalletAndWaitForSync"}}

\* C13: in every returned result wallet1Seed / wallet2Seed are the seeds generated
\* when the wallets were created (lines 193, 198), wallet1Address / wallet2Address
\* the addresses of the wallets created from them, and every later restoreWallet
\* call for a wallet was passed that same seed.
C13_ResultMatchesCreation ==
  result # <<>> =>
    /\ result[1].wallet1Seed = CreatedSeed("L193")
    /\ result[1].wallet2Seed = CreatedSeed("L198")
    /\ result[1].wallet1Seed \in NewSeeds /\ result[1].wallet2Seed \in NewSeeds
    /\ result[1].wallet1Address = AddressOf(CreatedSeed("L193"))
    /\ result[1].wallet2Address = AddressOf(CreatedSeed("L198"))
    /\ RestoredSeeds({"L219", "L234"}) = {result[1].wallet1Seed}
    /\ RestoredSeeds({"L246", "L252"}) = {result[1].wallet2Seed}

\* a result returned after the wallet2 payment failed and wallet2 was restored again
C13_Witness ==
  /\ result # <<>>
  /\ CallsAt({"L252"}) # {}
  /\ result[1].paymentTxId2 = Sentinel
\* C14: every error raised during a run is written to the log by the run itself
\* (logger.error or logger.warn) before it leaves runTestSetup or is replaced by the
\* sentinel: a rejected or terminated run has logged the error it ends with, and a
\* sentinel is recorded only together with a warning for that wallet.
C14_ErrorsLogged ==
  /\ (promise = "rejected" \/ exitCode = <<1>>) =>
       \E i \in 1..Len(log) : log[i].level = "error" /\ log[i].err = error
  /\ txIds.paymentTxId1 = Sentinel =>
       \E i \in 1..Len(log) :
         /\ log[i].level = "warn"
         /\ log[i].msg = "Automatic payment from wallet1 failed, manual payment required"
  /\ txIds.paymentTxId2 = Sentinel =>
       \E i \in 1..Len(log) :
         /\ log[i].level = "warn"
         /\ log[i].msg = "Automatic payment from wallet2 failed, manual payment required"

BuildOps == {"buildWalletAndWaitForFunds", "buildWalletAndWaitForSync"}
SubmitOps == {"submitTransaction", "deploy", "register"}
\* index of the call that built the wallet handle h
BuiltAt(h) ==
  CHOOSE i \in 1..Len(calls) : calls[i].h = h /\ calls[i].op \in BuildOps /\ calls[i].ok
\* the call i submits a transaction or reads wallet state for the report
UsesWallet(i) == calls[i].op \in SubmitOps \/ calls[i].at \in {"L256", "L257"}

\* C15: every call that submits a transaction (the funding transfers, deploy,
\* register, the payments) or reads wallet state for the report (lines 256-257) is
\* made on a handle returned by a restoreWallet call that was made after the last
\* earlier submission of the same wallet.
C15_FreshlyRestored ==
  \A i \in 1..Len(calls) :
    UsesWallet(i) =>
      LET b == BuiltAt(calls[i].h) IN
        /\ calls[b].at \in RestoreSites
        /\ \A j \in 1..(i - 1) :
             (calls[j].op \in SubmitOps /\ calls[BuiltAt(calls[j].h)].to = calls[b].to)
               => j < b
\* indices of the restoreWallet calls made at p (a call starts with its build)
RestoreCallsAt(p) == {i \in CallsAt({p}) : calls[i].op = "buildWalletAndWaitForSync"}
\* the restoreWallet call made at p returned the handle h: its three calls returned
RestoredAt(h, p) ==
  LET C == {i \in CallsAt({p}) : calls[i].h = h /\ calls[i].ok} IN
    \A op \in {"buildWalletAndWaitForSync", "waitForSync", "state"} :
      \E i \in C : calls[i].op = op
\* the handle on which line 257 reads the state of wallet2 comes from a restoreWallet
\* call that returned
Wallet2ReadOnRestored ==
  \A i \in CallsAt({"L257"}) :
    RestoredAt(calls[i].h, "L246") \/ RestoredAt(calls[i].h, "L252")

\* C16 as stated: wallet2 is restored a second time (line 252) only when the first
\* restoreWallet (line 246) did not return; the handle read at line 257 was returned
\* by a restoreWallet call.
C16_SecondRestoreOnlyAfterFailedRestore ==
  /\ RestoreCallsAt("L252") # {} => FailedAt({"L246"})
  /\ Wallet2ReadOnRestored

\* C16 (amended): wallet2 is restored a second time exactly when its payment attempt
\* failed, in the first restoreWallet or in the sendFunds that follows it; when the
\* attempt succeeded no further restoreWallet call is made for wallet2; each of the
\* two calls is made at most once; the handle read at line 257 was returned by a
\* restoreWallet call, the second one when there was a second one.
C16_SecondRestoreAfterFailedAttempt ==
  LET R1 == RestoreCallsAt("L246")
      R2 == RestoreCallsAt("L252")
      Failed == FailedAt({"L246", "L247"})
  IN
  /\ R2 # {} => Failed
  /\ Failed => (R2 # {} \/ (pc = "L252" /\ sub = "L115" /\ Running))
  /\ R2 # {} => ~OkAt("submitTransaction", "L247")
  /\ Cardinality(R1) <= 1 /\ Cardinality(R2) <= 1
  /\ \A i \in CallsAt({"L257"}) :
       /\ RestoredAt(calls[i].h, "L246") \/ RestoredAt(calls[i].h, "L252")
       /\ R2 # {} => RestoredAt(calls[i].h, "L252")

\* the first restore returned, the transfer failed, wallet2 was restored again and
\* its state read
C16_Witness ==
  /\ OkAt("state", "L246")
  /\ FailedAt({"L247"})
  /\ OkAt("state", "L252")
  /\ CallsAt({"L257"}) # {}
\* the funding transfers have been made: the run is at line 219 or beyond
Funded == pc \in {"L219", "L220", "L221", "L227", "L234", "L235", "L246", "L247",
                  "L252", "L256", "L257", "L279", "done"}

\* C17: no run reaches the deployment with a funding id missing: from line 219 on,
\* fundingTxId1 and fundingTxId2 are the ids of the first and second transaction
\* submitted, both sent by the fund wallet, the first to the address wallet1 was
\* created with and the second to that of wallet2, and neither is unassigned or
\* the sentinel; a returned result carries these two ids.
C17_FundingIdsReal ==
  /\ Funded =>
       /\ Len(ledger) >= 2
       /\ ledger[1].at = "L209" /\ ledger[2].at = "L210"
       /\ ledger[1].id = txIds.fundingTxId1 /\ ledger[2].id = txIds.fundingTxId2
       /\ ledger[1].from = env.FUND_WALLET_SEED /\ ledger[2].from = env.FUND_WALLET_SEED
       /\ {txIds.fundingTxId1, txIds.fundingTxId2} \cap {Unassigned, Sentinel} = {}
       /\ ledger[1].to = AddressOf(CreatedSeed("L193"))
       /\ ledger[2].to = AddressOf(CreatedSeed("L198"))
       /\ \A p \in {"L209", "L210"} : OkAt("submitTransaction", p)
  /\ result # <<>> =>
       /\ Funded
       /\ result[1].fundingTxId1 = txIds.fundingTxId1
       /\ result[1].fundingTxId2 = txIds.fundingTxId2

\* a returned result with both funding ids
C17_Witness ==
  /\ result # <<>>
  /\ result[1].fundingTxId1 = TxId(1)
  /\ result[1].fundingTxId2 = TxId(2)

\* number of calls of op made at p
TimesCalled(op, p) == Cardinality({i \in CallsAt({p}) : calls[i].op = op})
\* submitTransaction is invoked at most once for each of the four transfers, deploy
\* and register at most once each
AtMostOnce ==
  /\ \A p \in SendSites : TimesCalled("submitTransaction", p) <= 1
  /\ TimesCalled("deploy", "L221") <= 1
  /\ TimesCalled("register", "L227") <= 1
  /\ \A i \in 1..Len(calls) :
       /\ calls[i].op = "submitTransaction" => calls[i].at \in SendSites
       /\ calls[i].op = "deploy" => calls[i].at = "L221"
       /\ calls[i].op = "register" => calls[i].at = "L227"

RECURSIVE SentUpTo(_, _)
\* total amount of the first n submitted transactions sent by the wallet of seed
SentUpTo(seed, n) ==
  IF n = 0 THEN 0
  ELSE SentUpTo(seed, n - 1) + (IF ledger[n].from = seed THEN ledger[n].amount ELSE 0)
\* total amount sent by the wallet of seed
Sent(seed) == SentUpTo(seed, Len(ledger))

\* C18: no transfer is submitted twice, deploy and register are invoked at most
\* once; hence a wallet that has submitted a transfer has sent at most
\* 2 x FUNDING_AMOUNT in total when it is the fund wallet and at most PAYMENT_AMOUNT
\* when it is a test wallet.
C18_NoDoubleSubmission ==
  /\ AtMostOnce
  /\ \A i \in 1..Len(ledger) :
       Sent(ledger[i].from) <= IF ledger[i].from = env.FUND_WALLET_SEED
                                 THEN 2 * env.FUNDING_AMOUNT
                                 ELSE env.PAYMENT_AMOUNT

\* the run is over with exactly one outcome: the result returned, the error
\* propagated, or the process terminated inside the run
Outcomes ==
  {o \in {"completed", "failed", "exited"} :
     \/ o = "completed" /\ promise = "fulfilled" /\ result # <<>>
     \/ o = "failed" /\ promise = "rejected" /\ error # <<>> /\ result = <<>>
     \/ o = "exited" /\ promise = "pending" /\ exitCode = <<1>>}

\* C19: when every collaborator call eventually returns or throws, every run
\* eventually ends, and stays, in exactly one of the three outcomes: completed with
\* a result, failed with the error propagated, or process exit.
C19_RunEnds ==
  <>[](Cardinality(Outcomes) = 1)

\* a standalone run that completed and exited
C19_Witness ==
  /\ Outcomes = {"completed"}
  /\ exitCode = <<0>>
====
